---- MODULE Spec2Model ----
(***************************************************************************)
(* Model of the geometry kernel src/src/util.rs (meshlite).                *)
(*                                                                         *)
(* Every operation of util.rs is a pure function.  Each is an operator     *)
(* here, computed step by step as the Rust code computes it.  Coordinates  *)
(* are whole numbers (times a power of two where the operation says so).   *)
(* Where their differences, cross and dot products stay below 2^24 these   *)
(* are exact in f32 and are computed as integers; every division, square   *)
(* root and operation on a rounded value, and every operation of           *)
(* intersect_of_segment_and_plane, is computed in f32, bit for bit (see     *)
(* "f32 arithmetic").                                                      *)
(* Values the code can produce that are not numbers are explicit:          *)
(*   - normalize() of the zero vector has NaN in every component           *)
(*     (0 * (1/0) = NaN);                                                  *)
(*   - an out-of-bounds index is the outcome Panic.                        *)
(* A specification draws the arguments of one call in Init and its single  *)
(* action applies the operation and stores the returned value.             *)
(***************************************************************************)
EXTENDS Integers, Sequences, FiniteSets

VARIABLES op, args, ret

vars == <<op, args, ret>>

\* the call has been issued and has not returned yet
Pending == [tag |-> "pending"]

\* Rust's panic on an out-of-bounds index (Vec's Index implementation)
Panic == [tag |-> "panic"]

RetBool(b) == [tag |-> "bool", val |-> b]

(***************************************************************************)
(* cgmath Vector3 / Point3 arithmetic on <<x, y, z>>                       *)
(***************************************************************************)
Abs(x) == IF x < 0 THEN -x ELSE x

Sub(p, q) == <<p[1] - q[1], p[2] - q[2], p[3] - q[3]>>

Add(p, q) == <<p[1] + q[1], p[2] + q[2], p[3] + q[3]>>

Scale(v, k) == <<v[1] * k, v[2] * k, v[3] * k>>

Dot(v, w) == v[1] * w[1] + v[2] * w[2] + v[3] * w[3]

Cross(v, w) == <<v[2] * w[3] - v[3] * w[2],
                 v[3] * w[1] - v[1] * w[3],
                 v[1] * w[2] - v[2] * w[1]>>

ZeroVec == <<0, 0, 0>>

(***************************************************************************)
(* f32 arithmetic (IEEE 754 binary32, round to nearest, ties to even)      *)
(* A finite f32 is [s |-> 1 or -1, m |-> mantissa, e |-> exponent] with    *)
(* value s * m * 2^e, where m = 0 (zero) or 2^23 <= m < 2^24.  Subnormals, *)
(* overflow and the sign of zero do not occur for the values drawn here;   *)
(* division by zero is decided where the code divides.                     *)
(* Whole numbers below 2^24 in magnitude are exact in f32, and so are      *)
(* their sums, differences and products while these stay below 2^24: such  *)
(* subexpressions are computed as integer arithmetic and converted with    *)
(* FromInt where the first rounding operation (/, sqrt) uses them.         *)
(***************************************************************************)
\* 2^0 .. 2^30
PowersOfTwo ==
    <<1, 2, 4, 8, 16, 32, 64, 128, 256, 512, 1024, 2048, 4096, 8192,
      16384, 32768, 65536, 131072, 262144, 524288, 1048576, 2097152,
      4194304, 8388608, 16777216, 33554432, 67108864, 134217728,
      268435456, 536870912, 1073741824>>

\* 2^n for 0 <= n <= 30
Pow2(n) == PowersOfTwo[n + 1]

\* number of bits of x, 0 <= x < 2^31
BitLen(x) == Cardinality({i \in 1..31 : PowersOfTwo[i] <= x})

FZero == [s |-> 1, m |-> 0, e |-> 0]

\* s * (M + fraction) * 2^E rounded to 24 bits, where 0 <= M < 2^31 and
\* sticky says that a non-zero fraction below one unit of M was cut off
\* (then M has at least 26 bits)
RoundF32(s, M, E, sticky) ==
    IF M = 0 THEN FZero
    ELSE LET len == BitLen(M)
         IN  IF len <= 24
             THEN [s |-> s, m |-> M * Pow2(24 - len), e |-> E - (24 - len)]
             ELSE LET k    == len - 24
                      q    == M \div Pow2(k)
                      r    == M % Pow2(k)
                      half == Pow2(k - 1)
                      up   == r > half \/ (r = half /\ (sticky \/ q % 2 = 1))
                      q1   == IF up THEN q + 1 ELSE q
                  IN  IF q1 = 16777216
                      THEN [s |-> s, m |-> 8388608, e |-> E + k + 1]
                      ELSE [s |-> s, m |-> q1, e |-> E + k]

\* k * 2^e as f32, for a whole number k
FromIntE(k, e) == RoundF32(IF k < 0 THEN -1 ELSE 1, Abs(k), e, FALSE)

FromInt(k) == FromIntE(k, 0)

FNeg(x) == IF x.m = 0 THEN FZero ELSE [s |-> 0 - x.s, m |-> x.m, e |-> x.e]

\* f32::abs
FAbs(x) == [s |-> 1, m |-> x.m, e |-> x.e]

\* x * y
FMul(x, y) ==
    IF x.m = 0 \/ y.m = 0 THEN FZero
    ELSE LET a1 == x.m \div 4096
             a0 == x.m % 4096
             b1 == y.m \div 4096
             b0 == y.m % 4096
             lo == a0 * b0
             mid == a1 * b0 + a0 * b1 + (lo \div 4096)
             hi == a1 * b1 + (mid \div 4096)
             low24 == (mid % 4096) * 4096 + (lo % 4096)
         IN  \* x.m * y.m = hi * 2^24 + low24
             RoundF32(x.s * y.s, hi * 64 + (low24 \div 262144),
                      x.e + y.e + 18, low24 % 262144 # 0)

\* the quotient bits of rem / d after the binary point, n more to produce
RECURSIVE DivLoop(_, _, _, _)
DivLoop(rem, d, q, n) ==
    IF n = 0 THEN <<q, rem>>
    ELSE LET r2 == 2 * rem
         IN  IF r2 >= d THEN DivLoop(r2 - d, d, 2 * q + 1, n - 1)
                        ELSE DivLoop(r2, d, 2 * q, n - 1)

\* x / y for y # 0
FDiv(x, y) ==
    IF x.m = 0 THEN FZero
    ELSE LET qr == DivLoop(x.m % y.m, y.m, x.m \div y.m, 26)
         IN  RoundF32(x.s * y.s, qr[1], x.e - y.e - 26, qr[2] # 0)

\* digit-by-digit square root: the bit pairs i, i - 1, ..., last of mp
\* (pairs below 0 are zero) brought down into rem
RECURSIVE SqrtLoop(_, _, _, _, _)
SqrtLoop(mp, i, last, root, rem) ==
    IF i < last THEN <<root, rem>>
    ELSE LET pair  == IF i >= 0 THEN (mp \div Pow2(2 * i)) % 4 ELSE 0
             r4    == 4 * rem + pair
             trial == 4 * root + 1
         IN  IF r4 >= trial THEN SqrtLoop(mp, i - 1, last, 2 * root + 1, r4 - trial)
                            ELSE SqrtLoop(mp, i - 1, last, 2 * root, r4)

\* sqrt(x) for x >= 0
FSqrt(x) ==
    IF x.m = 0 THEN FZero
    ELSE LET odd == x.e % 2 = 1
             mp  == IF odd THEN 2 * x.m ELSE x.m
             ep  == IF odd THEN x.e - 1 ELSE x.e
             rr  == SqrtLoop(mp, 12, -14, 0, 0)
         IN  RoundF32(1, rr[1], (ep \div 2) - 14, rr[2] # 0)

\* x + y
FAdd(x, y) ==
    IF x.m = 0 THEN y
    ELSE IF y.m = 0 THEN x
    ELSE LET xBig == x.e > y.e \/ (x.e = y.e /\ x.m >= y.m)
             big == IF xBig THEN x ELSE y
             sml == IF xBig THEN y ELSE x
             d   == big.e - sml.e
             Mb  == big.m * 64
             Ms  == IF d > 30 THEN 0 ELSE (sml.m * 64) \div Pow2(d)
             st  == IF d > 30 THEN TRUE ELSE (sml.m * 64) % Pow2(d) # 0
         IN  IF big.s = sml.s
             THEN RoundF32(big.s, Mb + Ms, big.e - 6, st)
             ELSE RoundF32(big.s, Mb - Ms - (IF st THEN 1 ELSE 0), big.e - 6, st)

FSub(x, y) == FAdd(x, FNeg(y))

\* x <= y, x < y (the rounded difference has the sign of the exact one)
FLeq(x, y) == LET df == FSub(x, y) IN df.m = 0 \/ df.s = -1

FLt(x, y) == LET df == FSub(x, y) IN df.m # 0 /\ df.s = -1

\* Vector3 of f32 from a whole-number vector times 2^e
FVec(v, e) == <<FromIntE(v[1], e), FromIntE(v[2], e), FromIntE(v[3], e)>>

FVecAdd(v, w) == <<FAdd(v[1], w[1]), FAdd(v[2], w[2]), FAdd(v[3], w[3])>>

FVecSub(v, w) == <<FSub(v[1], w[1]), FSub(v[2], w[2]), FSub(v[3], w[3])>>

FVecScale(v, k) == <<FMul(v[1], k), FMul(v[2], k), FMul(v[3], k)>>

\* cgmath dot: x * x' + y * y' + z * z', summed left to right
FDot(v, w) == FAdd(FAdd(FMul(v[1], w[1]), FMul(v[2], w[2])), FMul(v[3], w[3]))

\* InnerSpace::magnitude
FMagnitude(v) == FSqrt(FDot(v, v))

\* a NaN component
NaN == [tag |-> "nan"]

NaNVec == <<NaN, NaN, NaN>>

\* InnerSpace::normalize of a whole-number vector: v * (1 / |v|); the zero
\* vector has |v| = 0, 1 / 0 is infinite and 0 * infinity is NaN
Normalize(v) ==
    IF v = ZeroVec THEN NaNVec
    ELSE FVecScale(FVec(v, 0), FDiv(FromInt(1), FSqrt(FromInt(Dot(v, v)))))

\* InnerSpace::normalize of the result of normalize(): NaN components stay
\* NaN, a unit vector is scaled by 1 / |n| again
Renormalize(n) ==
    IF n = NaNVec THEN NaNVec
    ELSE FVecScale(n, FDiv(FromInt(1), FMagnitude(n)))

\* util.rs norm()
norm(p1, p2, p3) ==
    LET side1 == Sub(p2, p1)
        side2 == Sub(p3, p1)
        perp  == Cross(side1, side2)
    IN  Normalize(perp)

\* util.rs is_valid_norm(): no component is NaN
is_valid_norm(n) == n[1] # NaN /\ n[2] # NaN /\ n[3] # NaN

(***************************************************************************)
(* point_in_triangle                                                       *)
(***************************************************************************)
\* r + t <= 1.0 with r = |v x w| / denom and t = |u x w| / denom, where the
\* arguments are the whole numbers |v x w|^2, |u x w|^2 and denom^2.
\* denom = 0 makes r and t infinite or NaN and the comparison false.
RatioSumLeqOne(vw2, uw2, uv2) ==
    IF uv2 = 0 THEN FALSE
    ELSE LET denom == FSqrt(FromInt(uv2))
             r == FDiv(FSqrt(FromInt(vw2)), denom)
             t == FDiv(FSqrt(FromInt(uw2)), denom)
         IN  FLeq(FAdd(r, t), FromInt(1))

point_in_triangle(a, b, c, p) ==
    LET u == Sub(b, a)
        v == Sub(c, a)
        w == Sub(p, a)
        v_cross_w == Cross(v, w)
        v_cross_u == Cross(v, u)
        u_cross_w == Cross(u, w)
        u_cross_v == Cross(u, v)
    IN  IF Dot(v_cross_w, v_cross_u) < 0 THEN FALSE
        ELSE IF Dot(u_cross_w, u_cross_v) < 0 THEN FALSE
        ELSE RatioSumLeqOne(Dot(v_cross_w, v_cross_w), Dot(u_cross_w, u_cross_w),
                            Dot(u_cross_v, u_cross_v))

\* largest coordinate of the tested point p
MaxCoordTri == 5

GridTri == {<<x, y, z>> : x \in 0..MaxCoordTri, y \in 0..MaxCoordTri,
                          z \in 0..MaxCoordTri}

AnchorsTri == {<<0, 0, 0>>}

\* the vertices b and c
CornersTri == {<<2, 0, 0>>, <<0, 2, 0>>, <<2, 1, 0>>, <<1, 2, 0>>,
               <<0, 5, 5>>, <<5, 0, 5>>}

InitTri ==
    /\ op = "point_in_triangle"
    /\ args \in [a : AnchorsTri, b : CornersTri, c : CornersTri, p : GridTri]
    /\ ret = Pending

Call_point_in_triangle ==
    /\ op = "point_in_triangle"
    /\ ret = Pending
    /\ ret' = RetBool(point_in_triangle(args.a, args.b, args.c, args.p))
    /\ UNCHANGED <<op, args>>

NextTri == Call_point_in_triangle

SpecTri == InitTri /\ [][NextTri]_vars

\* the triangle (a, b, c) has three non-collinear vertices
NonDegenerateTri(a, b, c) == Cross(Sub(b, a), Sub(c, a)) # ZeroVec

\* p lies in the plane through a, b, c
InPlaneOf(a, b, c, p) == Dot(Cross(Sub(b, a), Sub(c, a)), Sub(p, a)) = 0

\* a coplanar p lies in the closed triangle: on the inner side of, or on, each
\* of the three edge lines (orientation with respect to the triangle's normal)
InClosedTriangle(a, b, c, p) ==
    LET nrm == Cross(Sub(b, a), Sub(c, a))
    IN  /\ Dot(Cross(Sub(b, a), Sub(p, a)), nrm) >= 0
        /\ Dot(Cross(Sub(c, b), Sub(p, b)), nrm) >= 0
        /\ Dot(Cross(Sub(a, c), Sub(p, c)), nrm) >= 0

\* C8: for a non-degenerate triangle and a point p in its plane,
\* point_in_triangle returns true exactly when p lies in the closed triangle
\* (interior, edges and vertices accepted, coplanar outside points rejected).
C8_PointInTriangleIffClosed ==
    (op = "point_in_triangle" /\ ret # Pending
        /\ NonDegenerateTri(args.a, args.b, args.c)
        /\ InPlaneOf(args.a, args.b, args.c, args.p))
    => (ret.val <=> InClosedTriangle(args.a, args.b, args.c, args.p))

\* C8, the part of it that holds: every point of the triangle's plane that
\* point_in_triangle accepts lies in the closed triangle, and the centroid
\* and the three vertices are accepted.
C8_AcceptedAreInside ==
    (op = "point_in_triangle" /\ ret # Pending
        /\ NonDegenerateTri(args.a, args.b, args.c)
        /\ InPlaneOf(args.a, args.b, args.c, args.p))
    => /\ ret.val => InClosedTriangle(args.a, args.b, args.c, args.p)
       /\ Scale(args.p, 3) = Add(Add(args.a, args.b), args.c) => ret.val
       /\ args.p \in {args.a, args.b, args.c} => ret.val

(***************************************************************************)
(* is_point_on_segment                                                     *)
(***************************************************************************)
\* the f32 nearest to 0.00001, the distance tolerance of is_point_on_segment
DIST_TOLERANCE == [s |-> 1, m |-> 10995116, e |-> -40]

\* t = seg_begin + v * (w_dot_v / v_dot_v) and dist = t.distance(point), each
\* operation rounded to f32
is_point_on_segment(point, seg_begin, seg_end) ==
    LET v == Sub(seg_end, seg_begin)
        w == Sub(point, seg_begin)
        w_dot_v == Dot(w, v)
        v_dot_v == Dot(v, v)
    IN  IF w_dot_v <= 0 THEN FALSE
        ELSE IF v_dot_v <= w_dot_v THEN FALSE
        ELSE LET ratio == FDiv(FromInt(w_dot_v), FromInt(v_dot_v))
                 t == FVecAdd(FVec(seg_begin, 0), FVecScale(FVec(v, 0), ratio))
                 dist == FMagnitude(FVecSub(FVec(point, 0), t))
             IN  FLeq(dist, DIST_TOLERANCE)

\* largest x and y coordinate of the segment tests' grid
MaxCoordSeg == 2

\* points far enough from the origin for the rounding of t to show
FarSeg == {<<-130, 0, 0>>, <<105, 0, 0>>, <<129, 0, 0>>}

GridSeg == {<<x, y, z>> : x \in 0..MaxCoordSeg, y \in 0..MaxCoordSeg, z \in {0, 1}}
               \cup FarSeg

InitSeg ==
    /\ op = "is_point_on_segment"
    /\ args \in [point : GridSeg, seg_begin : GridSeg, seg_end : GridSeg]
    /\ ret = Pending

Call_is_point_on_segment ==
    /\ op = "is_point_on_segment"
    /\ ret = Pending
    /\ ret' = RetBool(is_point_on_segment(args.point, args.seg_begin, args.seg_end))
    /\ UNCHANGED <<op, args>>

NextSeg == Call_is_point_on_segment

SpecSeg == InitSeg /\ [][NextSeg]_vars

\* the projection of point onto the line of the segment falls at or before
\* seg_begin (parameter <= 0) or at or after seg_end (parameter >= 1)
ProjectionOutsideOpenSegment(point, seg_begin, seg_end) ==
    LET v == Sub(seg_end, seg_begin)
    IN  \/ Dot(Sub(point, seg_begin), v) <= 0
        \/ Dot(Sub(point, seg_end), v) >= 0

\* point lies on the line of the segment, strictly between its endpoints
StrictlyBetween(point, seg_begin, seg_end) ==
    /\ Cross(Sub(point, seg_begin), Sub(seg_end, seg_begin)) = ZeroVec
    /\ Dot(Sub(point, seg_begin), Sub(point, seg_end)) < 0

\* C9: is_point_on_segment is false whenever the projection parameter is <= 0
\* or >= 1 (so for point = seg_begin, point = seg_end and seg_begin = seg_end),
\* and true for every point on the line strictly between the endpoints.
C9_OpenSegment ==
    (op = "is_point_on_segment" /\ ret # Pending) =>
        /\ ProjectionOutsideOpenSegment(args.point, args.seg_begin, args.seg_end)
              => ret.val = FALSE
        /\ args.point = args.seg_begin => ret.val = FALSE
        /\ args.point = args.seg_end => ret.val = FALSE
        /\ args.seg_begin = args.seg_end => ret.val = FALSE
        /\ StrictlyBetween(args.point, args.seg_begin, args.seg_end)
              => ret.val = TRUE

\* C9, the part of it that holds: is_point_on_segment is false whenever the
\* projection parameter is <= 0 or >= 1, and every point it accepts lies on
\* the line strictly between the endpoints.
C9_RejectsOutsideOpenSegment ==
    (op = "is_point_on_segment" /\ ret # Pending) =>
        /\ ProjectionOutsideOpenSegment(args.point, args.seg_begin, args.seg_end)
              => ret.val = FALSE
        /\ ret.val => StrictlyBetween(args.point, args.seg_begin, args.seg_end)

(***************************************************************************)
(* world_perp                                                              *)
(* direct is <<x, y, z>> / den with den a power of two, so that direct is  *)
(* a vector of f32; the returned vector has the same den.                  *)
(***************************************************************************)
WORLD_Y_AXIS == <<0, 1, 0>>

WORLD_X_AXIS == <<1, 0, 0>>

\* the f32 nearest to 0.707
COS_45 == [s |-> 1, m |-> 11861492, e |-> -24]

\* |dot| > 0.707 for dot = k / den, den a power of two
GtCos45(k, den) == FLt(COS_45, FDiv(FromInt(Abs(k)), FromInt(den)))

RetVec(v, den) == [tag |-> "vec", v |-> v, den |-> den]

world_perp_swapped(direct, den) ==
    IF GtCos45(Dot(direct, WORLD_X_AXIS), den)
    THEN RetVec(Cross(direct, WORLD_X_AXIS), den)
    ELSE RetVec(Cross(direct, WORLD_Y_AXIS), den)

world_perp(direct, den) ==
    IF GtCos45(Dot(direct, WORLD_X_AXIS), den)
    THEN RetVec(Cross(direct, WORLD_Y_AXIS), den)
    ELSE RetVec(Cross(direct, WORLD_X_AXIS), den)

\* numerators around the 0.707 threshold (over den = 1024) and whole numbers
CoordsWP == {-1024, -724, -723, -1, 0, 1, 723, 724, 1024}

DensWP == {1, 1024}

InitWP ==
    /\ op = "world_perp"
    /\ args \in [direct : CoordsWP \X CoordsWP \X CoordsWP, den : DensWP]
    /\ ret = Pending

Call_world_perp ==
    /\ op = "world_perp"
    /\ ret = Pending
    /\ ret' = world_perp(args.direct, args.den)
    /\ UNCHANGED <<op, args>>

NextWP == Call_world_perp

SpecWP == InitWP /\ [][NextWP]_vars

\* |direction . worldXAxis| > 0.707
NearlyAlongX(direct, den) == Abs(direct[1]) * 1000 > 707 * den

\* C2 as stated: world_perp returns direction x worldXAxis exactly when
\* |direction . worldXAxis| > 0.707 and direction x worldYAxis otherwise.
C2_Original ==
    (op = "world_perp" /\ ret # Pending) =>
        /\ (ret.v = Cross(args.direct, <<1, 0, 0>>))
              <=> NearlyAlongX(args.direct, args.den)
        /\ ~NearlyAlongX(args.direct, args.den)
              => ret.v = Cross(args.direct, <<0, 1, 0>>)

\* C2 amended: world_perp returns direction x worldYAxis when
\* |direction . worldXAxis| > 0.707 and direction x worldXAxis for every other
\* direction.
C2_Amended ==
    (op = "world_perp" /\ ret # Pending) =>
        /\ NearlyAlongX(args.direct, args.den)
              => ret.v = Cross(args.direct, <<0, 1, 0>>)
        /\ ~NearlyAlongX(args.direct, args.den)
              => ret.v = Cross(args.direct, <<1, 0, 0>>)

\* the world X axis itself was given and its perpendicular is not the zero
\* vector
C2_Witness ==
    /\ op = "world_perp" /\ ret # Pending
    /\ args.direct = <<1, 0, 0>> /\ args.den = 1
    /\ ret.v = <<0, 0, 1>>

(***************************************************************************)
(* pick_most_not_obvious_vertex                                            *)
(* vertices is a sequence; Rust index i is element i + 1.                  *)
(***************************************************************************)
\* ties go to the last extremal vertex instead of the first
RECURSIVE ScanVerticesLast(_, _, _, _, _)
ScanVerticesLast(vertices, i, choosen_index, choosen_x, pick_max) ==
    IF i >= Len(vertices) THEN choosen_index
    ELSE LET x == vertices[i + 1][1]
         IN  IF pick_max
             THEN IF x >= choosen_x
                  THEN ScanVerticesLast(vertices, i + 1, i, x, pick_max)
                  ELSE ScanVerticesLast(vertices, i + 1, choosen_index, choosen_x, pick_max)
             ELSE IF x <= choosen_x
                  THEN ScanVerticesLast(vertices, i + 1, i, x, pick_max)
                  ELSE ScanVerticesLast(vertices, i + 1, choosen_index, choosen_x, pick_max)

\* the loop `for i in 1..vertices.len()` from iteration i on, with the current
\* choosen_index and choosen_x
RECURSIVE ScanVertices(_, _, _, _, _)
ScanVertices(vertices, i, choosen_index, choosen_x, pick_max) ==
    IF i >= Len(vertices) THEN choosen_index
    ELSE LET x == vertices[i + 1][1]
         IN  IF pick_max
             THEN IF x > choosen_x
                  THEN ScanVertices(vertices, i + 1, i, x, pick_max)
                  ELSE ScanVertices(vertices, i + 1, choosen_index, choosen_x, pick_max)
             ELSE IF x < choosen_x
                  THEN ScanVertices(vertices, i + 1, i, x, pick_max)
                  ELSE ScanVertices(vertices, i + 1, choosen_index, choosen_x, pick_max)

RetIndex(i) == [tag |-> "index", val |-> i]

pick_most_not_obvious_vertex(vertices) ==
    IF Len(vertices) <= 1 THEN RetIndex(0)
    ELSE LET choosen_x == vertices[1][1]
             pick_max  == choosen_x < 0
         IN  RetIndex(ScanVertices(vertices, 1, 0, choosen_x, pick_max))

\* longest vertex sequence drawn
MaxVerts == 4

XsPick == {-2, -1, 0, 1}

VertsPick == {<<x, 0, 0>> : x \in XsPick}

SeqsUpTo(S, n) == UNION {[1..k -> S] : k \in 0..n}

InitPick ==
    /\ op = "pick_most_not_obvious_vertex"
    /\ args \in [vertices : SeqsUpTo(VertsPick, MaxVerts)]
    /\ ret = Pending

Call_pick_most_not_obvious_vertex ==
    /\ op = "pick_most_not_obvious_vertex"
    /\ ret = Pending
    /\ ret' = pick_most_not_obvious_vertex(args.vertices)
    /\ UNCHANGED <<op, args>>

NextPick == Call_pick_most_not_obvious_vertex

SpecPick == InitPick /\ [][NextPick]_vars

\* x coordinate of the vertex at Rust index i
XAt(vertices, i) == vertices[i + 1][1]

\* C7: 0 for fewer than two vertices; otherwise a valid index of a vertex
\* with the maximum x (when vertices[0].x < 0) or the minimum x (otherwise),
\* the lowest such index.
C7_ExtremalLowestIndex ==
    (op = "pick_most_not_obvious_vertex" /\ ret # Pending) =>
        LET vs == args.vertices
            n  == Len(vs)
            r  == ret.val
        IN  /\ ret.tag = "index"
            /\ n <= 1 => r = 0
            /\ n >= 2 =>
                 /\ r \in 0..(n - 1)
                 /\ XAt(vs, 0) < 0 =>
                      /\ \A j \in 0..(n - 1) : XAt(vs, j) <= XAt(vs, r)
                      /\ \A j \in 0..(n - 1) : XAt(vs, j) = XAt(vs, r) => r <= j
                 /\ ~(XAt(vs, 0) < 0) =>
                      /\ \A j \in 0..(n - 1) : XAt(vs, j) >= XAt(vs, r)
                      /\ \A j \in 0..(n - 1) : XAt(vs, j) = XAt(vs, r) => r <= j

\* a maximum that occurs twice, after a negative first vertex: the earlier
\* occurrence, not index 0, was returned
C7_Witness ==
    /\ op = "pick_most_not_obvious_vertex" /\ ret # Pending
    /\ Len(args.vertices) >= 3
    /\ XAt(args.vertices, 0) < 0
    /\ ret.val > 0
    /\ \E j \in 0..(Len(args.vertices) - 1) :
           j > ret.val /\ XAt(args.vertices, j) = XAt(args.vertices, ret.val)

(***************************************************************************)
(* intersect_of_segment_and_plane                                          *)
(* p0, p1 and pt_on_plane are whole-number vectors times 2^scale and norm  *)
(* is a whole-number vector: all are vectors of f32.  Every operation of   *)
(* the function is computed in f32.                                        *)
(***************************************************************************)
\* the f32 nearest to 0.00000001
SMALL_NUM == [s |-> 1, m |-> 11258999, e |-> -50]

NoIntersection == [tag |-> "NoIntersection"]

Parallel == [tag |-> "Parallel"]

LiesIn == [tag |-> "LiesIn"]

\* Intersection(p) for a Point3<f32> p
Intersection(p) == [tag |-> "Intersection", p |-> p]

\* s_i < 0.0 || s_i > 1.0 (s_i is finite here, so the is_nan and is_infinite
\* tests are false)
OutsideUnitInterval(s_i) == FLt(s_i, FZero) \/ FLt(FromInt(1), s_i)

\* the test s_i > 1.0 is left out
intersect_of_segment_and_plane_no_upper(p0, p1, pt_on_plane, nrm, scale) ==
    LET u == FVecSub(FVec(p1, scale), FVec(p0, scale))
        w == FVecSub(FVec(p0, scale), FVec(pt_on_plane, scale))
        d == FDot(FVec(nrm, 0), u)
        n == FNeg(FDot(FVec(nrm, 0), w))
    IN  IF FLt(FAbs(d), SMALL_NUM)
        THEN IF n.m = 0 THEN LiesIn ELSE Parallel
        ELSE LET s_i == FDiv(n, d)
             IN  IF FLt(s_i, FZero)
                 THEN NoIntersection
                 ELSE Intersection(FVecAdd(FVec(p0, scale), FVecScale(u, s_i)))

intersect_of_segment_and_plane(p0, p1, pt_on_plane, nrm, scale) ==
    LET u == FVecSub(FVec(p1, scale), FVec(p0, scale))
        w == FVecSub(FVec(p0, scale), FVec(pt_on_plane, scale))
        d == FDot(FVec(nrm, 0), u)
        n == FNeg(FDot(FVec(nrm, 0), w))
    IN  IF FLt(FAbs(d), SMALL_NUM)
        THEN IF n.m = 0 THEN LiesIn ELSE Parallel
        ELSE LET s_i == FDiv(n, d)
             IN  IF OutsideUnitInterval(s_i)
                 THEN NoIntersection
                 ELSE Intersection(FVecAdd(FVec(p0, scale), FVecScale(u, s_i)))

\* largest coordinate of the segment/plane tests' grid, in units of 2^scale
MaxCoordSP == 1

GridSP == {<<x, y, z>> : x \in -1..MaxCoordSP, y \in -1..MaxCoordSP,
                         z \in -1..MaxCoordSP}

PlanePointsSP == {<<0, 0, 0>>, <<0, 0, 1>>}

NormsSP == {<<0, 0, 1>>, <<0, 0, 10>>, <<0, 0, 11>>, <<1, 2, -1>>}

\* coordinates in whole units, and in units of 2^-30 (about 9.3e-10), where
\* SMALL_NUM lies between 10 and 11 units
ScalesSP == {0, -30}

\* segments far from the origin, where norm . w is rounded: 2^24 + 1 is not
\* an f32
FarSP == [p0 : {<<16777216, 1, -16777216>>},
          p1 : {<<16777216, 2, -16777216>>, <<16777216, 0, -16777216>>,
                <<16777216, 1, -16777215>>},
          pt_on_plane : {<<0, 0, 0>>},
          norm : {<<1, 1, 1>>, <<0, 1, 0>>},
          scale : {0}]

InitSP ==
    /\ op = "intersect_of_segment_and_plane"
    /\ args \in [p0 : GridSP, p1 : GridSP, pt_on_plane : PlanePointsSP,
                 norm : NormsSP, scale : ScalesSP] \cup FarSP
    /\ ret = Pending

Call_intersect_of_segment_and_plane ==
    /\ op = "intersect_of_segment_and_plane"
    /\ ret = Pending
    /\ ret' = intersect_of_segment_and_plane(args.p0, args.p1, args.pt_on_plane,
                                             args.norm, args.scale)
    /\ UNCHANGED <<op, args>>

NextSP == Call_intersect_of_segment_and_plane

SpecSP == InitSP /\ [][NextSP]_vars

\* signed side of a point with respect to the plane, in exact arithmetic (in
\* units of 2^scale)
SideOf(pt, pt_on_plane, nrm) == Dot(nrm, Sub(pt, pt_on_plane))

\* p0 and p1 lie strictly on the same side of the plane
SameSideStrict(p0, p1, pt_on_plane, nrm) ==
    \/ SideOf(p0, pt_on_plane, nrm) > 0 /\ SideOf(p1, pt_on_plane, nrm) > 0
    \/ SideOf(p0, pt_on_plane, nrm) < 0 /\ SideOf(p1, pt_on_plane, nrm) < 0

\* number of trailing zero bits of a mantissa m > 0
TrailingZeros(m) == Cardinality({i \in 1..24 : m % PowersOfTwo[i + 1] = 0})

\* the f32 x is exactly the quotient (num / den) * 2^scale of whole numbers,
\* den # 0
IsQuotient(x, num, den, scale) ==
    IF x.m = 0 THEN num = 0
    ELSE LET tz == TrailingZeros(x.m)
             a == x.m \div Pow2(tz)
             t == x.e + tz - scale
         IN  /\ num # 0
             /\ (x.s = 1) <=> ((num > 0) <=> (den > 0))
             /\ IF t >= 0
                THEN /\ Abs(num) % Abs(den) = 0
                     /\ Abs(num) \div Abs(den) = a * Pow2(t)
                ELSE /\ -t <= 30
                     /\ Abs(den) % Pow2(-t) = 0
                     /\ Abs(num) % (Abs(den) \div Pow2(-t)) = 0
                     /\ Abs(num) \div (Abs(den) \div Pow2(-t)) = a

\* the returned point p is the point p0 + (n / d) u in exact arithmetic,
\* which lies on the plane and, for 0 <= n / d <= 1, between p0 and p1
OnPlaneAndSegment(p, p0, p1, pt_on_plane, nrm, scale) ==
    LET u == Sub(p1, p0)
        d == Dot(nrm, u)
        n == -Dot(nrm, Sub(p0, pt_on_plane))
    IN  \A i \in 1..3 : IsQuotient(p[i], p0[i] * d + u[i] * n, d, scale)

\* the classification of C5 in exact arithmetic, with `parallel` deciding its
\* first case
ClassifiedAs(parallel) ==
    LET n == -Dot(args.norm, Sub(args.p0, args.pt_on_plane))
        same == SameSideStrict(args.p0, args.p1, args.pt_on_plane, args.norm)
    IN  IF parallel
        THEN ret = (IF n = 0 THEN LiesIn ELSE Parallel)
        ELSE /\ (ret = NoIntersection) <=> same
             /\ ~same => /\ ret.tag = "Intersection"
                         /\ OnPlaneAndSegment(ret.p, args.p0, args.p1,
                                              args.pt_on_plane, args.norm,
                                              args.scale)

\* C5 as stated: with d = norm . (p1 - p0) and n = -norm . (p0 - pt_on_plane),
\* d = 0 gives LiesIn when n = 0 and Parallel otherwise; d # 0 gives
\* NoIntersection exactly when p0 and p1 are strictly on the same side, and
\* otherwise Intersection(P) with P on the plane and on the segment.
C5_Original ==
    (op = "intersect_of_segment_and_plane" /\ ret # Pending) =>
        ClassifiedAs(Dot(args.norm, Sub(args.p1, args.p0)) = 0)

\* the values the classification goes by: u = p1 - p0, w = p0 - pt_on_plane,
\* d = norm . u, n = -(norm . w) and s = n / d, each operation rounded to f32
RoundedU == FVecSub(FVec(args.p1, args.scale), FVec(args.p0, args.scale))

RoundedW == FVecSub(FVec(args.p0, args.scale), FVec(args.pt_on_plane, args.scale))

RoundedD == FDot(FVec(args.norm, 0), RoundedU)

RoundedN == FNeg(FDot(FVec(args.norm, 0), RoundedW))

RoundedS == FDiv(RoundedN, RoundedD)

\* C5 amended: the classification goes by the rounded values.  |d| < SMALL_NUM
\* gives LiesIn when n = 0 and Parallel otherwise; in every other case the
\* result is NoIntersection exactly when s < 0 or s > 1, and otherwise
\* Intersection(P) with P = p0 + s u, rounded.
C5_Amended ==
    (op = "intersect_of_segment_and_plane" /\ ret # Pending) =>
        IF FLt(FAbs(RoundedD), SMALL_NUM)
        THEN /\ RoundedN = FZero => ret = LiesIn
             /\ RoundedN # FZero => ret = Parallel
        ELSE LET outside == FLt(RoundedS, FZero) \/ FLt(FromInt(1), RoundedS)
             IN  /\ (ret = NoIntersection) <=> outside
                 /\ ~outside =>
                       /\ ret.tag = "Intersection"
                       /\ \A i \in 1..3 :
                             ret.p[i] = FAdd(FromIntE(args.p0[i], args.scale),
                                             FMul(RoundedU[i], RoundedS))

\* C5 with only the first case as the code has it (|d| < SMALL_NUM for the
\* exact d): the geometric reading of the second case does not hold, P is not
\* always exactly on the plane and a segment strictly on one side can be
\* given an Intersection.
C5_GeometricSecondCase ==
    (op = "intersect_of_segment_and_plane" /\ ret # Pending) =>
        ClassifiedAs(FLt(FromIntE(Abs(Dot(args.norm, Sub(args.p1, args.p0))),
                                  args.scale), SMALL_NUM))

\* a segment whose d is not zero but below SMALL_NUM was classified LiesIn
C5_Witness ==
    /\ op = "intersect_of_segment_and_plane" /\ ret # Pending
    /\ Dot(args.norm, Sub(args.p1, args.p0)) # 0
    /\ ret = LiesIn

\* a segment crossing the plane strictly inside was given its crossing point
C5_WitnessCrossing ==
    /\ op = "intersect_of_segment_and_plane" /\ ret # Pending
    /\ SideOf(args.p0, args.pt_on_plane, args.norm) < 0
    /\ SideOf(args.p1, args.pt_on_plane, args.norm) > 0
    /\ ret.tag = "Intersection"

\* a segment strictly on one side of the plane was given Intersection(p0):
\* norm . w was rounded to 0
C5_WitnessRounded ==
    /\ op = "intersect_of_segment_and_plane" /\ ret # Pending
    /\ SameSideStrict(args.p0, args.p1, args.pt_on_plane, args.norm)
    /\ ret = Intersection(FVec(args.p0, args.scale))

(***************************************************************************)
(* is_segment_and_quad_intersect, is_two_quads_intersect                   *)
(* Whole-number coordinates.  quad is a sequence; Rust index i is element  *)
(* i + 1.                                                                  *)
(***************************************************************************)
\* The body of is_segment_and_quad_intersect once quad[0], quad[1], quad[2]
\* have been read.  t is never compared with 0 or 1.  The whole-number
\* vectors, n and the dot products of whole-number vectors are exact in f32;
\* t, m, dms1, u and v are rounded (each is bound to its value once).
SegmentAndPlaneOfQuad(r1, r2, s1, s2, s3) ==
    LET ds21 == Sub(s2, s1)
        ds31 == Sub(s3, s1)
        n == Cross(ds21, ds31)
        dr == Sub(r1, r2)
        ndotdr == Dot(n, dr)
    IN  IF FLt(FromInt(Abs(ndotdr)), SMALL_NUM) THEN FALSE
        ELSE \E t \in {FDiv(FromInt(-Dot(n, Sub(r1, s1))), FromInt(ndotdr))} :
             \E m \in {FVecAdd(FVec(r1, 0), FVecScale(FVec(dr, 0), t))} :
             \E dms1 \in {FVecSub(m, FVec(s1, 0))} :
             \E u \in {FDot(dms1, FVec(ds21, 0))} :
             \E v \in {FDot(dms1, FVec(ds31, 0))} :
                 /\ FLeq(FZero, u) /\ FLeq(u, FromInt(Dot(ds21, ds21)))
                 /\ FLeq(FZero, v) /\ FLeq(v, FromInt(Dot(ds31, ds31)))

\* a segment parallel to the quad's plane is taken to intersect it
is_segment_and_quad_intersect_parallel_hits(p0, p1, quad) ==
    IF Len(quad) < 3 THEN Panic
    ELSE LET n == Cross(Sub(quad[2], quad[1]), Sub(quad[3], quad[1]))
         IN  IF Dot(n, Sub(p0, p1)) = 0 THEN RetBool(TRUE)
             ELSE RetBool(SegmentAndPlaneOfQuad(p0, p1, quad[1], quad[2], quad[3]))

is_segment_and_quad_intersect(p0, p1, quad) ==
    IF Len(quad) < 3 THEN Panic
    ELSE RetBool(SegmentAndPlaneOfQuad(p0, p1, quad[1], quad[2], quad[3]))

\* `for i in 0..edges.len()` from iteration i on: the edge edges[i],
\* edges[(i + 1) % edges.len()] against quad; TRUE on the first hit, Panic if
\* a test panics, FALSE when the loop ends
RECURSIVE AnyEdgeIntersects(_, _, _)
AnyEdgeIntersects(edges, quad, i) ==
    IF i >= Len(edges) THEN RetBool(FALSE)
    ELSE LET r == is_segment_and_quad_intersect(
                      edges[i + 1], edges[((i + 1) % Len(edges)) + 1], quad)
         IN  IF r = Panic THEN Panic
             ELSE IF r.val THEN RetBool(TRUE)
             ELSE AnyEdgeIntersects(edges, quad, i + 1)

is_two_quads_intersect(first_quad, second_quad) ==
    LET r == AnyEdgeIntersects(second_quad, first_quad, 0)
    IN  IF r = Panic THEN Panic
        ELSE IF r.val THEN RetBool(TRUE)
        ELSE AnyEdgeIntersects(first_quad, second_quad, 0)

\* largest x and y coordinate of the segment/quad tests' grid
MaxCoordSQ == 1

GridSQ == {<<x, y, z>> : x \in -1..MaxCoordSQ, y \in -1..MaxCoordSQ, z \in -1..2}

\* a 2 x 2 square in the plane z = 0 and a tilted parallelogram, both wound as
\* make_quad winds its corners
QuadsSQ == { << <<-1, -1, 0>>, <<1, -1, 0>>, <<1, 1, 0>>, <<-1, 1, 0>> >>,
             << <<0, 0, 0>>, <<1, 0, 1>>, <<1, 1, 1>>, <<0, 1, 0>> >> }

InitSQ ==
    /\ op = "is_segment_and_quad_intersect"
    /\ args \in [p0 : GridSQ, p1 : GridSQ, quad : QuadsSQ]
    /\ ret = Pending

Call_is_segment_and_quad_intersect ==
    /\ op = "is_segment_and_quad_intersect"
    /\ ret = Pending
    /\ ret' = is_segment_and_quad_intersect(args.p0, args.p1, args.quad)
    /\ UNCHANGED <<op, args>>

NextSQ == Call_is_segment_and_quad_intersect

SpecSQ == InitSQ /\ [][NextSQ]_vars

\* normal of the plane through quad[0], quad[1], quad[2]
PlaneNormalOf(quad) == Cross(Sub(quad[2], quad[1]), Sub(quad[3], quad[1]))

\* C10: when p0 and p1 lie strictly on the same side of the plane through
\* quad[0], quad[1], quad[2], is_segment_and_quad_intersect returns false.
C10_SegmentMustReachPlane ==
    (op = "is_segment_and_quad_intersect" /\ ret # Pending) =>
        (SameSideStrict(args.p0, args.p1, args.quad[1], PlaneNormalOf(args.quad))
            => ret = RetBool(FALSE))

\* largest coordinate of the corners of the quads tested against themselves
MaxCoordQQ == 1

GridQQ == {<<x, y, z>> : x \in 0..MaxCoordQQ, y \in 0..MaxCoordQQ, z \in 0..MaxCoordQQ}

\* three points on one line (two equal points included)
Collinear(a, b, c) == Cross(Sub(b, a), Sub(c, a)) = ZeroVec

\* 4 distinct coplanar points, no three of them collinear
NonDegenerateQuad(q) ==
    /\ ~Collinear(q[1], q[2], q[3])
    /\ ~Collinear(q[1], q[2], q[4])
    /\ ~Collinear(q[1], q[3], q[4])
    /\ ~Collinear(q[2], q[3], q[4])
    /\ Dot(PlaneNormalOf(q), Sub(q[4], q[1])) = 0

QuadsQQ == {q \in GridQQ \X GridQQ \X GridQQ \X GridQQ : NonDegenerateQuad(q)}

\* second quads other than the first quad itself, tested against the first
\* quads that start at the origin: a quad standing across the unit cube and
\* one far from it
OtherQuadsQQ == { << <<0, 0, -1>>, <<1, 1, -1>>, <<1, 1, 2>>, <<0, 0, 2>> >>,
                  << <<5, 5, 5>>, <<6, 5, 5>>, <<6, 6, 5>>, <<5, 6, 5>> >> }

InitQQ ==
    /\ op = "is_two_quads_intersect"
    /\ \E q \in QuadsQQ :
           \E s \in {q} \cup (IF q[1] = ZeroVec THEN OtherQuadsQQ ELSE {}) :
               args = [first_quad |-> q, second_quad |-> s]
    /\ ret = Pending

Call_is_two_quads_intersect ==
    /\ op = "is_two_quads_intersect"
    /\ ret = Pending
    /\ ret' = is_two_quads_intersect(args.first_quad, args.second_quad)
    /\ UNCHANGED <<op, args>>

NextQQ == Call_is_two_quads_intersect

SpecQQ == InitQQ /\ [][NextQQ]_vars

\* C1 as stated: is_two_quads_intersect(q, q) is true for every non-degenerate
\* quad q.
C1_Original ==
    (op = "is_two_quads_intersect" /\ ret # Pending
        /\ args.first_quad = args.second_quad
        /\ NonDegenerateQuad(args.first_quad))
    => ret = RetBool(TRUE)

\* C1 amended: is_two_quads_intersect(q, q) is false for every non-degenerate
\* quad q whose corners are exactly coplanar: each edge is parallel to the
\* quad's own plane and is rejected by the |n . dr| < SMALL_NUM test.
C1_Amended ==
    (op = "is_two_quads_intersect" /\ ret # Pending
        /\ args.first_quad = args.second_quad
        /\ NonDegenerateQuad(args.first_quad))
    => ret = RetBool(FALSE)

\* a non-degenerate quad was tested against itself and reported disjoint
C1_Witness ==
    /\ op = "is_two_quads_intersect" /\ ret # Pending
    /\ args.first_quad = args.second_quad
    /\ NonDegenerateQuad(args.first_quad)
    /\ ret = RetBool(FALSE)

\* two different quads were reported to intersect
QQ_SomeIntersect ==
    /\ op = "is_two_quads_intersect" /\ ret # Pending
    /\ ret = RetBool(TRUE)

(***************************************************************************)
(* pick_base_plane_norm                                                    *)
(* directs and positions hold whole-number vectors; weights                *)
(* holds numerators over 128, so 5 is the weight 5/128 = 0.0390625.        *)
(* Rust index i is element i + 1.                                          *)
(***************************************************************************)
None == [tag |-> "None"]

Some(v) == [tag |-> "Some", v |-> v]

\* the f32 nearest to 0.966
COS_15 == [s |-> 1, m |-> 16206791, e |-> -24]

\* |k| < 0.966 for a whole number k
LtCos15(k) == FLt(FromInt(Abs(k)), COS_15)

\* (weights[i] * 100.0) as usize for the weight w / 128: the cast truncates
\* toward zero and saturates, so a negative product gives 0
ToPercent(w) == IF w < 0 THEN 0 ELSE (w * 100) \div 128

\* insertion of e = <<index, percent>> into a list sorted by descending
\* percent, behind every element that does not compare greater under the
\* comparator b.1.cmp(&a.1): entries of equal percent keep their order
\* (slice::sort_by is stable)
RECURSIVE InsertDesc(_, _)
InsertDesc(sorted, e) ==
    IF sorted = <<>> THEN <<e>>
    ELSE IF Head(sorted)[2] >= e[2]
         THEN <<Head(sorted)>> \o InsertDesc(Tail(sorted), e)
         ELSE <<e>> \o sorted

RECURSIVE SortLoop(_, _, _)
SortLoop(entries, sorted, k) ==
    IF k > Len(entries) THEN sorted
    ELSE SortLoop(entries, InsertDesc(sorted, entries[k]), k + 1)

\* ascending instead of descending
sort_by_weight_ascending(weights) ==
    LET desc == SortLoop([i \in 1..Len(weights) |-> <<i - 1, 0 - ToPercent(weights[i])>>],
                         <<>>, 1)
    IN  [i \in 1..Len(desc) |-> <<desc[i][1], 0 - desc[i][2]>>]

\* equal percents come out in reverse index order
sort_by_weight_unstable(weights) ==
    LET n == Len(weights)
        rev == SortLoop([i \in 1..n |-> <<n - i, ToPercent(weights[n + 1 - i])>>],
                        <<>>, 1)
    IN  rev

\* weighted_indices after the push loop and sort_by: <<index, percent>> pairs
sort_by_weight(weights) ==
    SortLoop([i \in 1..Len(weights) |-> <<i - 1, ToPercent(weights[i])>>], <<>>, 1)

\* `if a.dot(b).abs() < 0.966 { return Some(a.cross(b).normalize()) }`
PairQualifies(a, b) == LtCos15(Dot(a, b))

PairNormal(a, b) == Some(Normalize(Cross(a, b)))

\* the branch taken for three chosen samples i0, i1, i2: the triangle normal
\* of their positions, else the first qualifying pair of directions.  Every
\* index is checked where the code reads it.
three_sample_policy(directs, positions, i0, i1, i2) ==
    IF i0 >= Len(positions) \/ i1 >= Len(positions) \/ i2 >= Len(positions)
    THEN Panic
    ELSE LET nrm == norm(positions[i0 + 1], positions[i1 + 1], positions[i2 + 1])
         IN  IF is_valid_norm(nrm) THEN Some(Renormalize(nrm))
             ELSE IF i0 >= Len(directs) \/ i1 >= Len(directs) THEN Panic
             ELSE IF PairQualifies(directs[i0 + 1], directs[i1 + 1])
                  THEN PairNormal(directs[i0 + 1], directs[i1 + 1])
             ELSE IF i2 >= Len(directs) THEN Panic
             ELSE IF PairQualifies(directs[i1 + 1], directs[i2 + 1])
                  THEN PairNormal(directs[i1 + 1], directs[i2 + 1])
             ELSE IF PairQualifies(directs[i2 + 1], directs[i0 + 1])
                  THEN PairNormal(directs[i2 + 1], directs[i0 + 1])
             ELSE None

pick_base_plane_norm(directs, positions, weights) ==
    IF Len(directs) <= 1 THEN None
    ELSE IF Len(directs) <= 2
         THEN IF PairQualifies(directs[1], directs[2])
              THEN PairNormal(directs[1], directs[2])
              ELSE None
    ELSE IF Len(directs) <= 3
         THEN three_sample_policy(directs, positions, 0, 1, 2)
    ELSE LET weighted_indices == sort_by_weight(weights)
         IN  IF Len(weighted_indices) < 3 THEN Panic
             ELSE three_sample_policy(directs, positions, weighted_indices[1][1],
                                      weighted_indices[2][1], weighted_indices[3][1])

\* largest number of samples drawn
MaxSamples == 4

\* a sample's direction and position
GeomBase == { << <<1, 0, 0>>, <<0, 0, 0>> >>,
              << <<0, 1, 0>>, <<1, 0, 0>> >>,
              << <<0, 0, 0>>, <<0, 1, 0>> >> }

\* weights -0.5, 0.03125, 0.0390625 and 0.5: percents 0, 3, 3 and 50
WeightsBase == {-64, 4, 5, 64}

SamplesBase == GeomBase \X WeightsBase

InitBase ==
    /\ op = "pick_base_plane_norm"
    /\ \E samples \in SeqsUpTo(SamplesBase, MaxSamples) :
           args = [directs   |-> [i \in 1..Len(samples) |-> samples[i][1][1]],
                   positions |-> [i \in 1..Len(samples) |-> samples[i][1][2]],
                   weights   |-> [i \in 1..Len(samples) |-> samples[i][2]]]
    /\ ret = Pending

Call_pick_base_plane_norm ==
    /\ op = "pick_base_plane_norm"
    /\ ret = Pending
    /\ ret' = pick_base_plane_norm(args.directs, args.positions, args.weights)
    /\ UNCHANGED <<op, args>>

NextBase == Call_pick_base_plane_norm

SpecBase == InitBase /\ [][NextBase]_vars

\* C4: pick_base_plane_norm never returns Some(v) with v the NaN vector that
\* normalizing a zero vector gives, whatever the sample count and the lengths
\* of the directions.
C4_NeverSomeNaN ==
    (op = "pick_base_plane_norm" /\ ret # Pending) =>
        (ret.tag = "Some" => ret.v # NaNVec)

\* number of samples placed before sample i (Rust index) when the samples are
\* ordered by descending integer percent, equal percents by ascending index
RankOf(weights, i) ==
    Cardinality({j \in 0..(Len(weights) - 1) :
                    \/ ToPercent(weights[j + 1]) > ToPercent(weights[i + 1])
                    \/ /\ ToPercent(weights[j + 1]) = ToPercent(weights[i + 1])
                       /\ j < i})

\* the sample of rank r
SampleOfRank(weights, r) ==
    CHOOSE i \in 0..(Len(weights) - 1) : RankOf(weights, i) = r

\* the elements of s at Rust indices i0, i1, i2, in that order
Pick3(s, i0, i1, i2) == <<s[i0 + 1], s[i1 + 1], s[i2 + 1]>>

\* C6: with 4 or more samples the result is what the 3-sample policy returns
\* for the three samples of largest integer percent, in descending order of
\* percent, equal percents in index order.
C6_TopThreeRefinement ==
    (op = "pick_base_plane_norm" /\ ret # Pending /\ Len(args.directs) >= 4) =>
        LET i0 == SampleOfRank(args.weights, 0)
            i1 == SampleOfRank(args.weights, 1)
            i2 == SampleOfRank(args.weights, 2)
        IN  ret = pick_base_plane_norm(Pick3(args.directs, i0, i1, i2),
                                       Pick3(args.positions, i0, i1, i2),
                                       Pick3(args.weights, i0, i1, i2))

\* four samples whose three largest percents are not the first three samples,
\* two of them equal only after truncation (4/128 and 5/128 are both 3
\* percent), and a normal was returned
C6_Witness ==
    /\ op = "pick_base_plane_norm" /\ ret # Pending
    /\ Len(args.directs) >= 4
    /\ args.weights[1] = 4 /\ args.weights[2] = 5
    /\ args.weights[3] = 4 /\ args.weights[4] = 64
    /\ SampleOfRank(args.weights, 0) = 3
    /\ SampleOfRank(args.weights, 1) = 0
    /\ SampleOfRank(args.weights, 2) = 1
    /\ ret.tag = "Some" /\ ret.v # NaNVec

(***************************************************************************)
(* Calls with sequences of any length                                      *)
(* The four operations that index a Vec, called with sequences whose       *)
(* lengths are drawn independently of each other.                          *)
(***************************************************************************)
\* longest sequence drawn
MaxLen == 4

PointsAny == {<<0, 0, 0>>, <<1, 0, 0>>, <<0, 1, 0>>}

DirectsAny == {<<1, 0, 0>>, <<0, 1, 0>>}

PositionsAny == {<<0, 0, 0>>, <<1, 0, 0>>}

WeightsAny == {5, 64}

InitAny ==
    /\ ret = Pending
    /\ \/ /\ op = "pick_base_plane_norm"
          /\ args \in [directs : SeqsUpTo(DirectsAny, MaxLen),
                       positions : SeqsUpTo(PositionsAny, MaxLen),
                       weights : SeqsUpTo(WeightsAny, MaxLen)]
       \/ /\ op = "is_segment_and_quad_intersect"
          /\ args \in [p0 : {<<0, 0, 1>>}, p1 : {<<0, 0, -1>>, <<1, 0, 1>>},
                       quad : SeqsUpTo(PointsAny, MaxLen)]
       \/ /\ op = "is_two_quads_intersect"
          /\ args \in [first_quad : SeqsUpTo(PointsAny, MaxLen),
                       second_quad : SeqsUpTo(PointsAny, MaxLen)]
       \/ /\ op = "pick_most_not_obvious_vertex"
          /\ args \in [vertices : SeqsUpTo(VertsPick, MaxLen)]

NextAny ==
    \/ Call_pick_base_plane_norm
    \/ Call_is_segment_and_quad_intersect
    \/ Call_is_two_quads_intersect
    \/ Call_pick_most_not_obvious_vertex

SpecAny == InitAny /\ [][NextAny]_vars

\* C3: whatever the lengths of the quad, directions, positions and weights
\* sequences, every operation returns a value and none aborts.
C3_NoOperationAborts ==
    ret # Pending => ret # Panic

====
